---- MODULE Spec2Model ----
(***************************************************************************)
(* Model of the AI file namer: the FileUpload component (file              *)
(* classification and asynchronous FileReader callbacks), the App          *)
(* component (naming-guideline fetch, handleFileSelect, handleSubmit) and  *)
(* the geminiService function suggestDocumentNames.                        *)
(*                                                                         *)
(* JavaScript strings are TLA+ strings.  A nullable value v is the         *)
(* sequence << >> (null) or <<v>>.                                         *)
(***************************************************************************)
EXTENDS Integers, Sequences, FiniteSets, TLC

\* ------------------------------------------------------------------------
\* Bounds of the model
\* ------------------------------------------------------------------------
MaxPending == 2      \* FileReaders that may be reading at the same time
MaxCalls == 2        \* generateContent calls in one behaviour

\* ------------------------------------------------------------------------
\* JavaScript values and string functions
\* ------------------------------------------------------------------------
null == << >>

Some(v) == <<v>>

Val(o) == o[1]

\* JavaScript truthiness of a nullable string: neither null nor "".
Truthy(o) == o # null /\ Val(o) # ""

CharAt(s, i) == SubSeq(s, i, i)

\* Whether p occurs in s at the 1-based index i.
startsWithAt(s, i, p) == i + Len(p) - 1 <= Len(s) /\ SubSeq(s, i, i + Len(p) - 1) = p

startsWith(s, p) == startsWithAt(s, 1, p)

endsWith(s, p) == Len(s) >= Len(p) /\ SubSeq(s, Len(s) - Len(p) + 1, Len(s)) = p

\* String.prototype.includes
includes(s, p) == \E i \in 1..(Len(s) - Len(p) + 1) : SubSeq(s, i, i + Len(p) - 1) = p

\* String.prototype.indexOf for a one-character pattern, 0-based, -1 if absent.
indexOf(s, c) ==
  IF \E i \in 1..Len(s) : CharAt(s, i) = c
  THEN (CHOOSE i \in 1..Len(s) : CharAt(s, i) = c /\ \A j \in 1..(i - 1) : CharAt(s, j) # c) - 1
  ELSE -1

\* String.prototype.substring(start) with a 0-based start.
substring(s, start) == SubSeq(s, start + 1, Len(s))

UpperCaseLetters == "ABCDEFGHIJKLMNOPQRSTUVWXYZ"

LowerCaseLetters == "abcdefghijklmnopqrstuvwxyz"

\* The lower-case letter of each upper-case letter.
LowerCaseOf ==
  [c \in { CharAt(UpperCaseLetters, i) : i \in 1..26 } |->
     CharAt(LowerCaseLetters, CHOOSE i \in 1..26 : CharAt(UpperCaseLetters, i) = c)]

toLowerCaseChar(c) == IF c \in DOMAIN LowerCaseOf THEN LowerCaseOf[c] ELSE c

RECURSIVE toLowerCase(_)
toLowerCase(s) ==
  IF s = "" THEN "" ELSE toLowerCaseChar(CharAt(s, 1)) \o toLowerCase(SubSeq(s, 2, Len(s)))

\* ------------------------------------------------------------------------
\* FileUpload.tsx: constants
\* ------------------------------------------------------------------------
TEXT_MIME_TYPE_PREFIX == "text/"

KNOWN_TEXT_MIME_TYPES ==
  { "application/json", "application/xml", "application/javascript", "application/rtf",
    "application/x-python", "application/x-sh", "application/x-csh", "application/x-php",
    "application/x-java-source", "application/x-sql", "application/x-httpd-php",
    "application/csv",
    "application/typescript" }

DOCX_MIME_TYPE == "application/vnd.openxmlformats-officedocument.wordprocessingml.document"

PDF_MIME_TYPE == "application/pdf"

OCTET_STREAM == "application/octet-stream"

\* The extensions of the regular expression in processFile.
TextExtensions ==
  { "txt", "md", "markdown", "json", "xml", "csv", "html", "htm",
    "js", "css", "py", "java", "rb", "sh", "php", "ts" }

\* /\.(txt|md|...|ts)$/i.test(s)
TextExtensionRegexTest(s) ==
  LET lower == toLowerCase(s) IN \E ext \in TextExtensions : endsWith(lower, "." \o ext)

\* ------------------------------------------------------------------------
\* Files the user can select.  A file is [name, type, data]: data is the text
\* its bytes decode to.
\* ------------------------------------------------------------------------
File(name, type, data) == [name |-> name, type |-> type, data |-> data]

\* Declared media types (File.type) of the classification scenarios.
DeclaredTypes ==
  { "", OCTET_STREAM, "text/plain", "application/json", "application/typescript",
    DOCX_MIME_TYPE, PDF_MIME_TYPE, "image/png", "audio/mpeg", "video/mp4",
    "application/zip" }

\* File names of the classification scenarios.
FileNames ==
  { "notes.txt", "Main.TS", "report.docx", "REPORT.DOCX", "scan.pdf", "README", "a.docx.bak" }

GridFiles == { File(n, t, "hi") : n \in FileNames, t \in DeclaredTypes }

\* Files of the scenario with overlapping reads: a small text file, an empty
\* text file, a PDF, a DOCX and a file of an unsupported type.
ConcFiles ==
  { File("a.txt", "text/plain", "hi"),
    File("empty.txt", "text/plain", ""),
    File("b.pdf", PDF_MIME_TYPE, "%PDF"),
    File("c.docx", DOCX_MIME_TYPE, "PK"),
    File("d.zip", "application/zip", "PK") }

\* btoa on the byte strings of the files above (RFC 4648).
btoa(d) ==
  CASE d = "" -> ""
    [] d = "hi" -> "aGk="
    [] d = "%PDF" -> "JVBERg=="
    [] d = "PK" -> "UEs="

\* FileReader.readAsText: the decoded text.
readAsText(file) == file.data

\* FileReader.readAsDataURL: data:<mediatype>;base64,<data>.
readAsDataURL(file) ==
  "data:" \o (IF file.type = "" THEN OCTET_STREAM ELSE file.type) \o ";base64," \o btoa(file.data)

\* ------------------------------------------------------------------------
\* FileUpload.tsx: processFile, classification
\* ------------------------------------------------------------------------
isPotentiallyTextFile(file) ==
  LET currentMimeType == file.type
      fileName == toLowerCase(file.name)
  IN \/ startsWith(currentMimeType, TEXT_MIME_TYPE_PREFIX)
     \/ currentMimeType \in KNOWN_TEXT_MIME_TYPES
     \/ /\ (currentMimeType = "" \/ currentMimeType = OCTET_STREAM)
        /\ TextExtensionRegexTest(fileName)

\* isDocxFile testing the extension on the name as given, not lower-cased.
isDocxFileCaseSensitive(file) ==
  LET currentMimeType == file.type
  IN \/ currentMimeType = DOCX_MIME_TYPE
     \/ /\ (currentMimeType = "" \/ currentMimeType = OCTET_STREAM)
        /\ endsWith(file.name, ".docx")

isDocxFile(file) ==
  LET currentMimeType == file.type
      fileName == toLowerCase(file.name)
  IN \/ currentMimeType = DOCX_MIME_TYPE
     \/ /\ (currentMimeType = "" \/ currentMimeType = OCTET_STREAM)
        /\ endsWith(fileName, ".docx")

\* currentMimeType after "if (isDocxFile) currentMimeType = DOCX_MIME_TYPE".
currentMimeType(file) == IF isDocxFile(file) THEN DOCX_MIME_TYPE ELSE file.type

isBinaryType(mimeType) ==
  \/ startsWith(mimeType, "image/")
  \/ startsWith(mimeType, "audio/")
  \/ startsWith(mimeType, "video/")
  \/ mimeType = PDF_MIME_TYPE

\* The branch of processFile's if / else-if chain the file takes.
processFileMode(file) ==
  IF isDocxFile(file) THEN "docx"
  ELSE IF isPotentiallyTextFile(file) THEN "text"
  ELSE IF isBinaryType(currentMimeType(file)) THEN "binary"
  ELSE "unsupported"

placeholderText(file) ==
  "[Text content from DOCX file: " \o file.name \o
  "] (Note: This is a placeholder. Full DOCX content analysis requires a specific client-side parsing library.)"

base64Data(file) ==
  LET dataUrl == readAsDataURL(file)
  IN substring(dataUrl, indexOf(dataUrl, ",") + 1)

\* The arguments reader.onload passes to onFileSelect: <<file, content, mimeType, error>>.
onloadArgs(file, mode) ==
  CASE mode = "docx" -> <<Some(file), Some(placeholderText(file)), Some("text/plain"), null>>
    [] mode = "text" ->
         <<Some(file), Some(readAsText(file)),
           Some(IF currentMimeType(file) # "" THEN currentMimeType(file) ELSE "text/plain"), null>>
    [] mode = "binary" -> <<Some(file), Some(base64Data(file)), Some(currentMimeType(file)), null>>

readErrorMessage(file) == "Error reading file: " \o file.name \o ". Please try again."

\* onerror reporting no message.
onerrorArgsNoMessage(file) == <<null, null, null, null>>

\* The arguments reader.onerror passes to onFileSelect.
onerrorArgs(file) == <<null, null, null, Some(readErrorMessage(file))>>

unsupportedMessage(file) ==
  "Unsupported file type: \"" \o
  (IF currentMimeType(file) # "" THEN currentMimeType(file) ELSE "unknown") \o
  "\" for file \"" \o file.name \o
  "\". Please upload a supported Text, PDF, DOCX, Image, Audio, or Video file."

\* ------------------------------------------------------------------------
\* JavaScript built-ins used by geminiService: trim, the regular-expression
\* classes \s and \w, JSON.parse
\* ------------------------------------------------------------------------
WhiteSpace == { " ", "\n", "\t", "\r" }

WordChars == "ABCDEFGHIJKLMNOPQRSTUVWXYZabcdefghijklmnopqrstuvwxyz0123456789_"

Digits == "0123456789"

isWhiteSpace(c) == c \in WhiteSpace

isWordChar(c) == \E i \in 1..Len(WordChars) : CharAt(WordChars, i) = c

isDigit(c) == \E i \in 1..Len(Digits) : CharAt(Digits, i) = c

\* Index of the first character at or after i that is not white space (Len(s) + 1 if none).
RECURSIVE skipWs(_, _)
skipWs(s, i) == IF i <= Len(s) /\ isWhiteSpace(CharAt(s, i)) THEN skipWs(s, i + 1) ELSE i

\* Index of the first character at or after i that is not a word character.
RECURSIVE skipWord(_, _)
skipWord(s, i) == IF i <= Len(s) /\ isWordChar(CharAt(s, i)) THEN skipWord(s, i + 1) ELSE i

\* Index of the first character at or after i that is not a digit.
RECURSIVE skipDigits(_, _)
skipDigits(s, i) == IF i <= Len(s) /\ isDigit(CharAt(s, i)) THEN skipDigits(s, i + 1) ELSE i

\* Index of the last character at or before i that is not white space (0 if none).
RECURSIVE skipWsBack(_, _)
skipWsBack(s, i) == IF i >= 1 /\ isWhiteSpace(CharAt(s, i)) THEN skipWsBack(s, i - 1) ELSE i

\* String.prototype.trim
trim(s) == SubSeq(s, skipWs(s, 1), skipWsBack(s, Len(s)))

ParseFail == [ok |-> FALSE]

ParseOk(v, next) == [ok |-> TRUE, val |-> v, pos |-> next]

JString(str) == [t |-> "string", s |-> str]

JArray(items) == [t |-> "array", items |-> items]

JNumber(lexeme) == [t |-> "number", n |-> lexeme]

JLiteral(name) == [t |-> "literal", name |-> name]

JObject(members) == [t |-> "object", members |-> members]

\* The character an escape sequence \c of a JSON string stands for ("" if unsupported).
unescape(c) ==
  CASE c = "\"" -> "\""
    [] c = "\\" -> "\\"
    [] c = "/" -> "/"
    [] c = "n" -> "\n"
    [] c = "t" -> "\t"
    [] c = "r" -> "\r"
    [] OTHER -> ""

\* The characters of a JSON string from index i (after the opening quote) on.
RECURSIVE parseChars(_, _, _)
parseChars(s, i, acc) ==
  IF i > Len(s) THEN ParseFail
  ELSE LET c == CharAt(s, i) IN
    IF c = "\"" THEN ParseOk(JString(acc), i + 1)
    ELSE IF c = "\\" THEN
      IF i + 1 > Len(s) \/ unescape(CharAt(s, i + 1)) = "" THEN ParseFail
      ELSE parseChars(s, i + 2, acc \o unescape(CharAt(s, i + 1)))
    ELSE IF c \in { "\n", "\t", "\r" } THEN ParseFail
    ELSE parseChars(s, i + 1, acc \o c)

\* A JSON number at index i: -? (0 | [1-9][0-9]*) (. [0-9]+)?
parseNumber(s, i) ==
  LET start == IF i <= Len(s) /\ CharAt(s, i) = "-" THEN i + 1 ELSE i
      intEnd == IF start <= Len(s) /\ CharAt(s, start) = "0" THEN start + 1 ELSE skipDigits(s, start)
      fracEnd == IF intEnd <= Len(s) /\ CharAt(s, intEnd) = "." THEN skipDigits(s, intEnd + 1) ELSE intEnd
  IN IF intEnd = start THEN ParseFail
     ELSE IF fracEnd = intEnd + 1 THEN ParseFail
     ELSE ParseOk(JNumber(SubSeq(s, i, fracEnd - 1)), fracEnd)

RECURSIVE parseValue(_, _)
RECURSIVE parseElements(_, _, _)
RECURSIVE parseMembers(_, _, _)

\* A JSON value at index i (white space before it already skipped).
parseValue(s, i) ==
  IF i > Len(s) THEN ParseFail
  ELSE LET c == CharAt(s, i) IN
    IF c = "\"" THEN parseChars(s, i + 1, "")
    ELSE IF c = "[" THEN
      LET j == skipWs(s, i + 1) IN
      IF j <= Len(s) /\ CharAt(s, j) = "]" THEN ParseOk(JArray(<< >>), j + 1)
      ELSE parseElements(s, j, << >>)
    ELSE IF c = "{" THEN
      LET j == skipWs(s, i + 1) IN
      IF j <= Len(s) /\ CharAt(s, j) = "}" THEN ParseOk(JObject(<< >>), j + 1)
      ELSE parseMembers(s, j, << >>)
    ELSE IF startsWithAt(s, i, "true") THEN ParseOk(JLiteral("true"), i + 4)
    ELSE IF startsWithAt(s, i, "false") THEN ParseOk(JLiteral("false"), i + 5)
    ELSE IF startsWithAt(s, i, "null") THEN ParseOk(JLiteral("null"), i + 4)
    ELSE parseNumber(s, i)

\* The elements of a JSON array from index i on; acc holds the elements before.
parseElements(s, i, acc) ==
  LET r == parseValue(s, i) IN
  IF ~r.ok THEN ParseFail
  ELSE LET k == skipWs(s, r.pos) IN
    IF k > Len(s) THEN ParseFail
    ELSE IF CharAt(s, k) = "," THEN parseElements(s, skipWs(s, k + 1), Append(acc, r.val))
    ELSE IF CharAt(s, k) = "]" THEN ParseOk(JArray(Append(acc, r.val)), k + 1)
    ELSE ParseFail

\* The members of a JSON object from index i on; acc holds the members before.
parseMembers(s, i, acc) ==
  IF i > Len(s) \/ CharAt(s, i) # "\"" THEN ParseFail
  ELSE LET key == parseChars(s, i + 1, "") IN
    IF ~key.ok THEN ParseFail
    ELSE LET c == skipWs(s, key.pos) IN
      IF c > Len(s) \/ CharAt(s, c) # ":" THEN ParseFail
      ELSE LET r == parseValue(s, skipWs(s, c + 1)) IN
        IF ~r.ok THEN ParseFail
        ELSE LET k == skipWs(s, r.pos)
                 member == [key |-> key.val.s, value |-> r.val] IN
          IF k > Len(s) THEN ParseFail
          ELSE IF CharAt(s, k) = "," THEN parseMembers(s, skipWs(s, k + 1), Append(acc, member))
          ELSE IF CharAt(s, k) = "}" THEN ParseOk(JObject(Append(acc, member)), k + 1)
          ELSE ParseFail

\* JSON.parse: the value, or ParseFail where JSON.parse throws a SyntaxError.
JSONparse(s) ==
  LET r == parseValue(s, skipWs(s, 1)) IN
  IF r.ok /\ skipWs(s, r.pos) = Len(s) + 1 THEN r ELSE ParseFail

\* ------------------------------------------------------------------------
\* geminiService: suggestDocumentNames
\* ------------------------------------------------------------------------
\* KNOWN_TEXT_MIME_TYPES of the service module (it differs from FileUpload's).
SERVICE_KNOWN_TEXT_MIME_TYPES ==
  { "application/json", "application/xml", "application/javascript", "application/rtf",
    "application/x-python", "application/x-sh", "application/x-csh", "application/x-php",
    "application/x-java-source", "application/x-sql", "application/x-httpd-php",
    "application/csv", "text/csv", "text/markdown", "text/html", "text/css", "text/plain" }

isTextContent(mimeType) ==
  startsWith(mimeType, TEXT_MIME_TYPE_PREFIX) \/ mimeType \in SERVICE_KNOWN_TEXT_MIME_TYPES

\* requestContents: the prompt as the fields the template strings embed.  A text
\* prompt is one string holding the document content; otherwise the prompt is
\* { parts: [fileDataPart, textInstructionPart] }.
requestContents(originalFileName, fileContent, mimeType, namingInstruction) ==
  IF isTextContent(mimeType)
  THEN [shape |-> "text",
        text |-> [originalFileName |-> originalFileName, mimeType |-> mimeType,
                  fileContent |-> fileContent, namingInstruction |-> namingInstruction]]
  ELSE [shape |-> "parts",
        inlineData |-> [mimeType |-> mimeType, data |-> fileContent],
        text |-> [originalFileName |-> originalFileName, mimeType |-> mimeType,
                  namingInstruction |-> namingInstruction]]

MissingKeyMessage == "Gemini API key is not configured. Please set the API_KEY environment variable."

\* The character the model writes for the backtick, which a TLA+ string cannot hold.
Backtick == "~"

Fence == Backtick \o Backtick \o Backtick

\* The match of a fence pattern without the language tag, /^```\s*\n?(.*?)\n?\s*```$/s.
fenceMatchNoTag(jsonStr) ==
  IF Len(jsonStr) >= 2 * Len(Fence) /\ startsWith(jsonStr, Fence) /\ endsWith(jsonStr, Fence)
  THEN LET bodyStart == skipWs(jsonStr, Len(Fence) + 1)
           bodyEnd == skipWsBack(jsonStr, Len(jsonStr) - Len(Fence))
       IN Some(IF bodyEnd < bodyStart THEN "" ELSE SubSeq(jsonStr, bodyStart, bodyEnd))
  ELSE null

\* jsonStr.match(/^```(\w*)?\s*\n?(.*?)\n?\s*```$/s): null, or <<match[2]>>.  The
\* greedy \w* and \s* take the language tag and the white space after it, the lazy
\* group ends where only white space precedes the closing fence.
fenceMatch(jsonStr) ==
  IF Len(jsonStr) >= 2 * Len(Fence) /\ startsWith(jsonStr, Fence) /\ endsWith(jsonStr, Fence)
  THEN LET bodyStart == skipWs(jsonStr, skipWord(jsonStr, Len(Fence) + 1))
           bodyEnd == skipWsBack(jsonStr, Len(jsonStr) - Len(Fence))
       IN Some(IF bodyEnd < bodyStart THEN "" ELSE SubSeq(jsonStr, bodyStart, bodyEnd))
  ELSE null

\* jsonStr after "if (match && match[2]) jsonStr = match[2].trim()".
stripFence(jsonStr) ==
  LET match == fenceMatch(jsonStr)
  IN IF match # null /\ Val(match) # "" THEN trim(Val(match)) ELSE jsonStr

isArrayOfStrings(parsedData) ==
  parsedData.t = "array" /\ \A i \in 1..Len(parsedData.items) : parsedData.items[i].t = "string"

Returned(names) == [ok |-> TRUE, names |-> names]

Thrown(message) == [ok |-> FALSE, message |-> message]

\* A response of ai.models.generateContent: the promise is rejected with an Error,
\* or fulfilled with a response whose text is a string or undefined and whose
\* candidates carry finish reasons.
Rejected(message) == [rejected |-> TRUE, message |-> message]

Fulfilled(text, finishReasons) == [rejected |-> FALSE, text |-> text, candidates |-> finishReasons]

UndefinedTrimMessage == "Cannot read properties of undefined (reading 'trim')"

SyntaxErrorMessage == "Unexpected token in JSON"

SingleStringMessage(str) ==
  "Received a single string from AI instead of a JSON array: \"" \o str \o
  "\". Please check AI prompt for JSON array enforcement."

UnexpectedFormatMessage == "Received unexpected data format from AI. Expected a JSON array of strings."

SafetyMessage ==
  "The request was blocked due to safety concerns (e.g. content policy). Please modify the content or instructions."

RecitationMessage == "The request was blocked due to recitation concerns. Please try a different prompt."

OtherMessage ==
  "The request was stopped for other reasons by the API. Please check the console for more details if available."

InvalidKeyMessage == "Invalid Gemini API Key. Please check your configuration."

\* The try block without the distinguishing message for a bare string.
tryBlockGenericOnly(response) ==
  IF response.rejected THEN Thrown(response.message)
  ELSE IF response.text = null THEN Thrown(UndefinedTrimMessage)
  ELSE LET jsonStr == stripFence(trim(Val(response.text)))
           parsed == JSONparse(jsonStr)
       IN IF ~parsed.ok THEN Thrown(SyntaxErrorMessage)
          ELSE LET parsedData == parsed.val IN
            IF isArrayOfStrings(parsedData)
            THEN Returned([i \in 1..Len(parsedData.items) |-> parsedData.items[i].s])
            ELSE Thrown(UnexpectedFormatMessage)

\* The try block returning at most the first five names of the array.
tryBlockUpToFive(response) ==
  IF response.rejected THEN Thrown(response.message)
  ELSE IF response.text = null THEN Thrown(UndefinedTrimMessage)
  ELSE LET jsonStr == stripFence(trim(Val(response.text)))
           parsed == JSONparse(jsonStr)
       IN IF ~parsed.ok THEN Thrown(SyntaxErrorMessage)
          ELSE LET parsedData == parsed.val IN
            IF isArrayOfStrings(parsedData)
            THEN Returned([i \in 1..(IF Len(parsedData.items) > 5 THEN 5 ELSE Len(parsedData.items)) |->
                             parsedData.items[i].s])
            ELSE IF parsedData.t = "string" THEN Thrown(SingleStringMessage(parsedData.s))
            ELSE Thrown(UnexpectedFormatMessage)

\* The try block: the names returned, or the message of the Error thrown in it.
tryBlock(response) ==
  IF response.rejected THEN Thrown(response.message)
  ELSE IF response.text = null THEN Thrown(UndefinedTrimMessage)
  ELSE LET jsonStr == stripFence(trim(Val(response.text)))
           parsed == JSONparse(jsonStr)
       IN IF ~parsed.ok THEN Thrown(SyntaxErrorMessage)
          ELSE LET parsedData == parsed.val IN
            IF isArrayOfStrings(parsedData)
            THEN Returned([i \in 1..Len(parsedData.items) |-> parsedData.items[i].s])
            ELSE IF parsedData.t = "string" THEN Thrown(SingleStringMessage(parsedData.s))
            ELSE Thrown(UnexpectedFormatMessage)

\* The catch block without the finish-reason messages.
catchBlockIgnoringFinishReason(response, message) ==
  IF includes(message, "API key not valid")
  THEN InvalidKeyMessage
  ELSE "Failed to get suggestions from AI: " \o message \o "."

\* The catch block: the message of the Error it throws for the error caught.
catchBlock(response, message) ==
  LET generic == "Failed to get suggestions from AI: " \o message \o "."
      keyed == IF includes(message, "API key not valid") THEN InvalidKeyMessage ELSE generic
  IN IF ~response.rejected /\ Len(response.candidates) > 0
     THEN LET finishReason == response.candidates[1] IN
          CASE finishReason = "SAFETY" -> SafetyMessage
            [] finishReason = "RECITATION" -> RecitationMessage
            [] finishReason = "OTHER" -> OtherMessage
            [] OTHER -> keyed
     ELSE keyed

\* suggestDocumentNames after the await: what the promise settles with.
settleResponse(response) ==
  LET r == tryBlock(response)
  IN IF r.ok THEN r ELSE Thrown(catchBlock(response, r.message))

\* Lists of names the service may be answered with: none, one, two, the same name
\* twice, and six names of which two are equal.
NameLists ==
  { << >>,
    <<"YW_a_20240101">>,
    <<"YW_a_20240101", "YW_b_20240101">>,
    <<"YW_a_20240101", "YW_a_20240101">>,
    <<"YW_a", "YW_b", "YW_a", "YW_c", "YW_d", "YW_e">> }

RECURSIVE joinQuoted(_, _)
joinQuoted(names, i) ==
  IF i > Len(names) THEN ""
  ELSE "\"" \o names[i] \o "\"" \o (IF i < Len(names) THEN ", " ELSE "") \o joinQuoted(names, i + 1)

\* The response text the prompt asks for: the JSON array of the names, as in
\* ["YW_a_20240101", "YW_b_20240101"].  The names hold no character JSON escapes.
ArrayText(names) == "[" \o joinQuoted(names, 1) \o "]"

\* A text wrapped in one code fence: the language tag follows the opening fence,
\* and sep separates the fences from the text.
wrap(text, tag, sep) == Fence \o tag \o sep \o text \o sep \o Fence

FenceTags == { "", "json" }

FenceSeparators == { "", "\n" }

\* The JSON arrays of NameLists in one fence, and in two.
FencedTexts == { wrap(ArrayText(names), tag, sep) : names \in NameLists, tag \in FenceTags, sep \in FenceSeparators }

DoublyFencedTexts ==
  { wrap(wrap(ArrayText(names), tag, "\n"), tag, "\n") :
      names \in { <<"YW_a_20240101">>, << >> }, tag \in FenceTags }

\* Response texts and finish reasons the service may answer with.
ResponseTexts ==
  { null,
    Some("[\"YW_a_20240101\", \"YW_b_20240101\"]"),
    Some(Fence \o "json\n[\"YW_a_20240101\"]\n" \o Fence),
    Some("[]"),
    Some("\"just a string\""),
    Some("{\"names\": [\"YW_a_20240101\"]}"),
    Some("[\"YW_a_20240101\", 1]"),
    Some("Sorry, I cannot help"),
    Some("\"API key not valid\""),
    Some("42"),
    Some("null"),
    Some("[[\"YW_a_20240101\"]]"),
    Some("Here you go: " \o Fence \o "json\n[\"YW_a_20240101\"]\n" \o Fence) }

FinishReasonLists ==
  { << >>, <<"STOP">>, <<"SAFETY">>, <<"RECITATION">>, <<"OTHER">>, <<"STOP", "SAFETY">> }

Rejections == { Rejected("API key not valid. Please pass a valid API key."), Rejected("Failed to fetch") }

Responses ==
  Rejections \cup { Fulfilled(t, c) : t \in ResponseTexts, c \in FinishReasonLists }
             \cup { Fulfilled(Some(t), <<"STOP">>) : t \in FencedTexts \cup DoublyFencedTexts }

\* The responses the App scenarios draw from: a rejection, a list of names, a
\* blocked response without text, a list of names with a SAFETY finish reason,
\* a bare string, an empty list, and a list of six names of which two are equal.
AppResponses ==
  { Rejected("Failed to fetch"),
    Fulfilled(Some("[\"YW_a_20240101\", \"YW_b_20240101\"]"), <<"STOP">>),
    Fulfilled(null, <<"SAFETY">>),
    Fulfilled(Some("[\"YW_a_20240101\"]"), <<"SAFETY">>),
    Fulfilled(Some("\"just a string\""), << >>),
    Fulfilled(Some("[]"), <<"STOP">>),
    Fulfilled(Some("[\"YW_a\", \"YW_b\", \"YW_a\", \"YW_c\", \"YW_d\", \"YW_e\"]"), <<"STOP">>) }

\* ------------------------------------------------------------------------
\* State
\* ------------------------------------------------------------------------
VARIABLES
  files,                 \* the files the user selects from in this behaviour
  API_KEY,               \* process.env.API_KEY, fixed at build time
  fetchPending,          \* fetchNamingRef is awaiting fetch('naming_ref.md')
  uploadedFile,          \* App state (useState), nullable
  originalFileName,
  documentContent,
  uploadedFileMimeType,
  namingRefContent,
  namingRefError,
  suggestedNames,
  isLoading,
  error,
  selectedFileName,      \* FileUpload state
  readers,               \* FileReaders whose read has not completed, oldest first
  request,               \* the handleSubmit calls awaiting suggestDocumentNames, oldest first
  aiCalls,               \* number of ai.models.generateContent invocations
  latestArgs,            \* what the most recent selection passed to onFileSelect, null until it has
  svcPending,            \* a direct call of suggestDocumentNames awaiting generateContent, nullable
  svcResult              \* what the last direct call of suggestDocumentNames settled with (and the
                         \* genAIResponse it had received, if any), nullable

appVars ==
  <<uploadedFile, originalFileName, documentContent, uploadedFileMimeType, suggestedNames, error>>

refVars == <<namingRefContent, namingRefError>>

svcVars == <<svcPending, svcResult>>

vars ==
  <<files, API_KEY, fetchPending, appVars, refVars, isLoading, selectedFileName, readers,
    request, aiCalls, latestArgs, svcVars>>

\* The state of App and FileUpload after mounting: the effect has started fetchNamingRef.
InitApp ==
  /\ fetchPending = TRUE
  /\ uploadedFile = null
  /\ originalFileName = null
  /\ documentContent = null
  /\ uploadedFileMimeType = null
  /\ namingRefContent = null
  /\ namingRefError = null
  /\ suggestedNames = << >>
  /\ isLoading = TRUE
  /\ error = null
  /\ selectedFileName = null
  /\ readers = << >>
  /\ request = null
  /\ aiCalls = 0
  /\ latestArgs = null
  /\ svcPending = null
  /\ svcResult = null

ApiKeys == { null, Some("AIza-key") }

Init ==
  /\ files \in { ConcFiles } \cup { { f } : f \in GridFiles }
  /\ API_KEY \in ApiKeys
  /\ InitApp

\* ------------------------------------------------------------------------
\* App: fetchNamingRef
\* ------------------------------------------------------------------------
\* Outcomes of fetch('naming_ref.md'): the text of an ok response, or the message
\* of the Error thrown (a response that is not ok, or a network failure).
FetchOutcomes ==
  { [ok |-> TRUE, text |-> "Project code: YW"],
    [ok |-> TRUE, text |-> ""],
    [ok |-> FALSE, message |-> "Failed to load naming_ref.md: 404 Not Found"],
    [ok |-> FALSE, message |-> "Failed to fetch"] }

NamingRefErrorMessage(message) ==
  "Error loading naming guidelines (naming_ref.md): " \o message \o
  ". Suggestions may not follow specific rules."

fetchNamingRef(outcome) ==
  /\ fetchPending
  /\ fetchPending' = FALSE
  /\ IF outcome.ok
     THEN namingRefContent' = Some(outcome.text) /\ namingRefError' = null
     ELSE namingRefError' = Some(NamingRefErrorMessage(outcome.message)) /\ UNCHANGED namingRefContent
  /\ isLoading' = FALSE
  /\ UNCHANGED <<files, API_KEY, appVars, selectedFileName, readers, request, aiCalls, latestArgs, svcVars>>

\* ------------------------------------------------------------------------
\* App: handleFileSelect
\* ------------------------------------------------------------------------
handleFileSelect(file, content, mimeType, errorMsg) ==
  /\ uploadedFile' = file
  /\ originalFileName' = IF file # null THEN Some(Val(file).name) ELSE null
  /\ documentContent' = content
  /\ uploadedFileMimeType' = mimeType
  /\ error' = errorMsg
  /\ suggestedNames' = << >>

\* ------------------------------------------------------------------------
\* FileUpload: processFile, the FileReader callbacks, handleFileChange, handleDrop
\* ------------------------------------------------------------------------
\* disabled={isLoading}
disabled == isLoading

Reader(file, mode) == [file |-> file, mode |-> mode, latest |-> TRUE]

\* The pending readers, none of them the most recent selection any more.
superseded(rs) == [i \in 1..Len(rs) |-> [rs[i] EXCEPT !.latest = FALSE]]

\* processFile leaving selectedFileName set when it rejects the file.
processFileKeepsName(file) ==
  LET mode == processFileMode(file) IN
  IF mode = "unsupported"
  THEN /\ handleFileSelect(null, null, null, Some(unsupportedMessage(file)))
       /\ selectedFileName' = Some(file.name)
       /\ readers' = superseded(readers)
       /\ latestArgs' = Some(<<null, null, null, Some(unsupportedMessage(file))>>)
  ELSE /\ Len(readers) < MaxPending
       /\ selectedFileName' = Some(file.name)
       /\ readers' = Append(superseded(readers), Reader(file, mode))
       /\ latestArgs' = null
       /\ UNCHANGED appVars

processFile(file) ==
  LET mode == processFileMode(file) IN
  IF mode = "unsupported"
  THEN /\ handleFileSelect(null, null, null, Some(unsupportedMessage(file)))
       /\ selectedFileName' = null
       /\ readers' = superseded(readers)
       /\ latestArgs' = Some(<<null, null, null, Some(unsupportedMessage(file))>>)
  ELSE /\ Len(readers) < MaxPending
       /\ selectedFileName' = Some(file.name)
       /\ readers' = Append(superseded(readers), Reader(file, mode))
       /\ latestArgs' = null
       /\ UNCHANGED appVars

handleFileChange(selection) ==
  /\ ~disabled
  /\ IF selection # null
     THEN processFile(Val(selection))
     ELSE /\ handleFileSelect(null, null, null, null)
          /\ selectedFileName' = null
          /\ readers' = superseded(readers)
          /\ latestArgs' = Some(<<null, null, null, null>>)
  /\ UNCHANGED <<files, API_KEY, fetchPending, refVars, isLoading, request, aiCalls, svcVars>>

handleDrop(file) ==
  /\ ~disabled
  /\ processFile(file)
  /\ UNCHANGED <<files, API_KEY, fetchPending, refVars, isLoading, request, aiCalls, svcVars>>

remove(rs, i) == SubSeq(rs, 1, i - 1) \o SubSeq(rs, i + 1, Len(rs))

\* reader.onload of the i-th pending reader.
readerOnload(i) ==
  /\ i \in 1..Len(readers)
  /\ LET args == onloadArgs(readers[i].file, readers[i].mode) IN
       /\ handleFileSelect(args[1], args[2], args[3], args[4])
       /\ latestArgs' = IF readers[i].latest THEN Some(args) ELSE latestArgs
  /\ readers' = remove(readers, i)
  /\ UNCHANGED <<files, API_KEY, fetchPending, refVars, isLoading, selectedFileName, request, aiCalls, svcVars>>

\* reader.onerror of the i-th pending reader.
readerOnerror(i) ==
  /\ i \in 1..Len(readers)
  /\ LET args == onerrorArgs(readers[i].file) IN
       /\ handleFileSelect(args[1], args[2], args[3], args[4])
       /\ latestArgs' = IF readers[i].latest THEN Some(args) ELSE latestArgs
  /\ selectedFileName' = null
  /\ readers' = remove(readers, i)
  /\ UNCHANGED <<files, API_KEY, fetchPending, refVars, isLoading, request, aiCalls, svcVars>>

\* ------------------------------------------------------------------------
\* suggestDocumentNames up to the await of ai.models.generateContent: the Error
\* thrown when no key is configured, or the contents generateContent is called with.
\* ------------------------------------------------------------------------
\* suggestDocumentNames without its check of API_KEY.
suggestDocumentNamesStartNoKeyCheck(originalName, fileContent, mimeType, namingInstruction) ==
  [ok |-> TRUE, contents |-> requestContents(originalName, fileContent, mimeType, namingInstruction)]

suggestDocumentNamesStart(originalName, fileContent, mimeType, namingInstruction) ==
  IF ~Truthy(API_KEY)
  THEN Thrown(MissingKeyMessage)
  ELSE [ok |-> TRUE, contents |-> requestContents(originalName, fileContent, mimeType, namingInstruction)]

\* ------------------------------------------------------------------------
\* App: the submit button and handleSubmit
\* ------------------------------------------------------------------------
NoFileMessage == "Please upload a supported file first (Text, PDF, DOCX, Image, Audio, or Video)."

NotLoadedMessage ==
  "Naming guidelines (naming_ref.md) are not loaded or still loading. Please ensure the file is accessible and try again."

CannotProceedMessage(refError) == "Cannot proceed: " \o refError

AppMissingKeyMessage == "API key is not configured. Please ensure the API_KEY environment variable is set."

FallbackInstruction ==
  "Suggest 5 concise and relevant file names. Ensure they are suitable for typical file systems."

\* The disabled attribute of the submit button without "isLoading ||".
submitDisabledIgnoringLoading ==
  \/ ~Truthy(documentContent)
  \/ ~Truthy(uploadedFileMimeType)
  \/ (~Truthy(namingRefContent) /\ Truthy(namingRefError))
  \/ (~Truthy(namingRefContent) /\ ~Truthy(namingRefError) /\ ~isLoading)

\* The disabled attribute of the submit button.
submitDisabled ==
  \/ isLoading
  \/ ~Truthy(documentContent)
  \/ ~Truthy(uploadedFileMimeType)
  \/ (~Truthy(namingRefContent) /\ Truthy(namingRefError))
  \/ (~Truthy(namingRefContent) /\ ~Truthy(namingRefError) /\ ~isLoading)

\* instructionsToUse
instructionsToUse == IF Truthy(namingRefContent) THEN Val(namingRefContent) ELSE FallbackInstruction

\* A click on the enabled submit button: handleSubmit up to its await.
handleSubmit ==
  /\ ~submitDisabled
  /\ aiCalls < MaxCalls
  /\ IF ~Truthy(documentContent) \/ ~Truthy(uploadedFileMimeType) \/ ~Truthy(originalFileName)
     THEN /\ error' = Some(NoFileMessage)
          /\ UNCHANGED <<suggestedNames, isLoading, request, aiCalls>>
     ELSE IF ~Truthy(namingRefContent) /\ ~Truthy(namingRefError)
     THEN /\ error' = Some(NotLoadedMessage)
          /\ UNCHANGED <<suggestedNames, isLoading, request, aiCalls>>
     ELSE IF Truthy(namingRefError) /\ ~Truthy(namingRefContent)
     THEN /\ error' = Some(CannotProceedMessage(Val(namingRefError)))
          /\ UNCHANGED <<suggestedNames, isLoading, request, aiCalls>>
     ELSE IF ~Truthy(API_KEY)
     THEN /\ error' = Some(AppMissingKeyMessage)
          /\ isLoading' = FALSE
          /\ UNCHANGED <<suggestedNames, request, aiCalls>>
     ELSE LET started == suggestDocumentNamesStart(Val(originalFileName), Val(documentContent),
                                                   Val(uploadedFileMimeType), instructionsToUse)
          IN /\ suggestedNames' = << >>
             /\ IF started.ok
                THEN /\ isLoading' = TRUE
                     /\ error' = null
                     /\ request' = Append(request, [contents |-> started.contents, file |-> uploadedFile])
                     /\ aiCalls' = aiCalls + 1
                ELSE /\ isLoading' = FALSE
                     /\ error' = Some(started.message)
                     /\ UNCHANGED <<request, aiCalls>>
  /\ UNCHANGED <<files, API_KEY, fetchPending, uploadedFile, originalFileName, documentContent,
                 uploadedFileMimeType, refVars, selectedFileName, readers, latestArgs, svcVars>>

\* handleSubmit after its await: generateContent has answered one of the calls
\* in flight with response.
handleSubmitSettle(response) ==
  /\ request # << >>
  /\ LET settled == settleResponse(response) IN
       IF settled.ok
       THEN suggestedNames' = settled.names /\ UNCHANGED error
       ELSE error' = Some(settled.message) /\ UNCHANGED suggestedNames
  /\ isLoading' = FALSE
  /\ \E i \in 1..Len(request) : request' = remove(request, i)
  /\ UNCHANGED <<files, API_KEY, fetchPending, uploadedFile, originalFileName, documentContent,
                 uploadedFileMimeType, refVars, selectedFileName, readers, aiCalls, latestArgs, svcVars>>

Next ==
  \/ \E outcome \in FetchOutcomes : fetchNamingRef(outcome)
  \/ \E selection \in { null } \cup { Some(f) : f \in files } : handleFileChange(selection)
  \/ \E f \in files : handleDrop(f)
  \/ \E i \in 1..MaxPending : readerOnload(i)
  \/ \E i \in 1..MaxPending : readerOnerror(i)
  \/ handleSubmit
  \/ \E response \in AppResponses : handleSubmitSettle(response)

Spec == Init /\ [][Next]_vars

\* ------------------------------------------------------------------------
\* suggestDocumentNames called on its own, on arguments drawn from small sets
\* ------------------------------------------------------------------------
ServiceNames == { "a.txt", "b.pdf" }

ServiceContents == { "hi", "aGk=" }

ServiceMimeTypes == { "text/plain", "application/json", PDF_MIME_TYPE, "application/typescript" }

ServiceInstructions == { FallbackInstruction, "Project code: YW" }

suggestDocumentNamesCall(originalName, fileContent, mimeType, namingInstruction) ==
  /\ svcPending = null
  /\ aiCalls < MaxCalls
  /\ LET started == suggestDocumentNamesStart(originalName, fileContent, mimeType, namingInstruction) IN
       IF started.ok
       THEN svcPending' = Some(started.contents) /\ svcResult' = null /\ aiCalls' = aiCalls + 1
       ELSE svcResult' = Some(started) /\ UNCHANGED <<svcPending, aiCalls>>
  /\ UNCHANGED <<files, API_KEY, fetchPending, appVars, refVars, isLoading, selectedFileName,
                 readers, request, latestArgs>>

suggestDocumentNamesSettle(response) ==
  /\ svcPending # null
  /\ svcResult' = Some(settleResponse(response) @@ [genAIResponse |-> response])
  /\ svcPending' = null
  /\ UNCHANGED <<files, API_KEY, fetchPending, appVars, refVars, isLoading, selectedFileName,
                 readers, request, aiCalls, latestArgs>>

InitService ==
  /\ files = { }
  /\ API_KEY \in ApiKeys
  /\ InitApp

NextService ==
  \/ \E n \in ServiceNames, c \in ServiceContents, m \in ServiceMimeTypes, p \in ServiceInstructions :
       suggestDocumentNamesCall(n, c, m, p)
  \/ \E response \in Responses : suggestDocumentNamesSettle(response)

SpecService == InitService /\ [][NextService]_vars

\* ------------------------------------------------------------------------
\* Properties
\* ------------------------------------------------------------------------

\* The most recent selection started a read, and that read has reported its result.
latestReadReported ==
  /\ latestArgs # null
  /\ \/ Val(latestArgs)[1] # null
     \/ \E f \in files : Val(latestArgs) = onerrorArgs(f)

\* C1 (as claimed): once every read has settled, the selection state is the one
\* the read of the most recently selected file reported, whatever order the reads
\* completed in: uploadedFile, originalFileName, documentContent,
\* uploadedFileMimeType and selectedFileName are those of the most recent
\* selection, and so is error as long as handleSubmit has not run.
C1_StaleReadNeverOverwrites ==
  (readers = << >> /\ latestReadReported) =>
    LET args == Val(latestArgs)
        name == IF args[1] # null THEN Some(Val(args[1]).name) ELSE null
    IN /\ uploadedFile = args[1]
       /\ originalFileName = name
       /\ documentContent = args[2]
       /\ uploadedFileMimeType = args[3]
       /\ selectedFileName = name
       /\ (Truthy(API_KEY) /\ aiCalls = 0) => error = args[4]

\* C2 (as claimed): suggestedNames is never non-empty while error is non-null.
C2_NeverSuggestionsWithError == ~(suggestedNames # << >> /\ error # null)

\* C3 (as claimed): when no read and no request is pending after a selection
\* attempt has reported its result, exactly one of documentContent and error is
\* present.
C3_ExactlyOneOfContentAndError ==
  (readers = << >> /\ request = null /\ latestArgs # null) =>
    ((documentContent # null) # (error # null))

\* The step is a report of processFile to onFileSelect: a read that completed or
\* failed, or the rejection of an unsupported file.
processFileReports ==
  \/ \E i \in 1..Len(readers) : readerOnload(i) \/ readerOnerror(i)
  \/ \E f \in files :
       processFileMode(f) = "unsupported" /\ (handleFileChange(Some(f)) \/ handleDrop(f))

\* C3 (amended): right after processFile reports the result of a selection (a
\* read that completed or failed, or an unsupported file), exactly one of
\* documentContent and error is non-null.
C3_ExactlyOneAfterReport ==
  [][processFileReports => ((documentContent' # null) # (error' # null))]_vars

\* C3 witness: a failed read has been reported: the error is there, the content is not.
C3_Witness ==
  /\ latestArgs # null
  /\ Val(latestArgs)[4] # null
  /\ error = Val(latestArgs)[4]
  /\ documentContent = null
  /\ \E f \in files : error = Some(readErrorMessage(f))

\* C4 (as claimed): after the fetch of naming_ref.md failed, the warning is kept
\* and a submission with a successfully read file can be made and calls
\* suggestDocumentNames with the fallback instruction.
C4_FallbackAfterFetchFailure ==
  (/\ ~fetchPending
   /\ namingRefContent = null
   /\ Truthy(documentContent) /\ Truthy(uploadedFileMimeType) /\ Truthy(originalFileName)
   /\ Truthy(API_KEY)
   /\ ~isLoading
   /\ aiCalls < MaxCalls)
  => /\ namingRefError # null
     /\ ENABLED (/\ handleSubmit
                 /\ request' # null
                 /\ Val(request').contents.text.namingInstruction = FallbackInstruction)

\* Arguments of suggestDocumentNames the properties quantify over.
ServiceArguments == ServiceNames \X ServiceContents \X ServiceMimeTypes \X ServiceInstructions

ConfigurationMessages == { Some(AppMissingKeyMessage), Some(MissingKeyMessage) }

\* C5: when no API key is configured, generateContent is never invoked; every
\* submission sets a configuration error at once and leaves isLoading false; and
\* suggestDocumentNames, on any arguments, throws its configuration error before
\* it calls generateContent.
C5_NoKeyNoCall ==
  [][~Truthy(API_KEY) =>
       /\ aiCalls' = 0 /\ request' = null /\ svcPending' = null
       /\ handleSubmit => (error' \in ConfigurationMessages /\ ~isLoading')
       /\ \A a \in ServiceArguments :
            suggestDocumentNamesStart(a[1], a[2], a[3], a[4]) = Thrown(MissingKeyMessage)]_vars

\* C5 witness: without a key, a file has been read and a submission has set the
\* configuration error.
C5_Witness ==
  /\ ~Truthy(API_KEY)
  /\ Truthy(documentContent)
  /\ error = Some(AppMissingKeyMessage)
  /\ aiCalls = 0

\* C6 (as claimed): the payload of a request agrees with how the file's content
\* was read: content read as text, or the DOCX placeholder, is sent as one text
\* prompt, and the inlineData of a multimodal prompt is the base64 payload of a
\* Binary-mode read.
C6_PayloadAgreesWithRead ==
  request # null =>
    LET file == Val(Val(request).file)
        contents == Val(request).contents
        mode == processFileMode(file)
    IN /\ mode \in { "text", "docx" } => contents.shape = "text"
       /\ contents.shape = "parts" =>
            (mode = "binary" /\ contents.inlineData.data = base64Data(file))

\* C7 (as claimed): a file whose name ends in .docx is read in the DOCX
\* placeholder mode whatever its declared media type, and is never rejected or
\* read in another mode.
C7_DocxNameAlwaysPlaceholder ==
  /\ \A i \in 1..Len(readers) :
       endsWith(readers[i].file.name, ".docx") => readers[i].mode = "docx"
  /\ \A f \in files :
       endsWith(f.name, ".docx") => error # Some(unsupportedMessage(f))

\* The declared type is the Word type, empty, or application/octet-stream, and
\* the name ends in .docx in any letter case.
docxByNameAndType(file) ==
  /\ file.type \in { DOCX_MIME_TYPE, "", OCTET_STREAM }
  /\ endsWith(toLowerCase(file.name), ".docx")

\* C7 (amended): a file whose name ends in .docx (in any letter case) and whose
\* declared media type is the Word type, empty or application/octet-stream is
\* read in the DOCX placeholder mode, and its onload reports the placeholder
\* string with media type text/plain.
C7_DocxByNameAndType ==
  [][/\ \A f \in files : docxByNameAndType(f) => processFileMode(f) = "docx"
     /\ \A i \in 1..Len(readers) :
          docxByNameAndType(readers[i].file) =>
            /\ readers[i].mode = "docx"
            /\ readerOnload(i) =>
                 /\ documentContent' = Some(placeholderText(readers[i].file))
                 /\ uploadedFileMimeType' = Some("text/plain")]_vars

\* C7 witness: a file named in upper case, with an empty declared type, has been
\* read and reported as the placeholder.
C7_Witness ==
  /\ uploadedFile # null
  /\ Val(uploadedFile).type = ""
  /\ Val(uploadedFile).name = "REPORT.DOCX"
  /\ documentContent = Some(placeholderText(Val(uploadedFile)))
  /\ uploadedFileMimeType = Some("text/plain")

\* C8 (as claimed): a file whose declared type is empty or
\* application/octet-stream and whose name ends in a text-like extension is
\* reported to onFileSelect as its decoded text with media type text/plain.
C8_TextExtensionIsTextPlain ==
  (/\ uploadedFile # null
   /\ Val(uploadedFile).type \in { "", OCTET_STREAM }
   /\ TextExtensionRegexTest(Val(uploadedFile).name))
  => /\ documentContent = Some(readAsText(Val(uploadedFile)))
     /\ uploadedFileMimeType = Some("text/plain")

\* The file matches none of the Text, DOCX and Binary rules.
matchesNoRule(file) ==
  ~isPotentiallyTextFile(file) /\ ~isDocxFile(file) /\ ~isBinaryType(file.type)

\* C9: selecting (or dropping) a file that matches none of the Text, DOCX and
\* Binary rules starts no read, sets the error to a message that names the
\* declared type (or unknown) and the file name, and clears uploadedFile,
\* originalFileName, documentContent, uploadedFileMimeType and selectedFileName.
C9_UnsupportedClearsSelection ==
  [][\A f \in files :
       (matchesNoRule(f) /\ (handleFileChange(Some(f)) \/ handleDrop(f))) =>
         /\ Len(readers') = Len(readers)
         /\ error' # null
         /\ includes(Val(error'), "\"" \o (IF f.type = "" THEN "unknown" ELSE f.type) \o "\"")
         /\ includes(Val(error'), "\"" \o f.name \o "\"")
         /\ startsWith(Val(error'), "Unsupported file type")
         /\ uploadedFile' = null /\ originalFileName' = null /\ documentContent' = null
         /\ uploadedFileMimeType' = null /\ selectedFileName' = null]_vars

\* C9 witness: an unsupported file has been rejected.
C9_Witness ==
  /\ \E f \in files : matchesNoRule(f) /\ error = Some(unsupportedMessage(f))
  /\ uploadedFile = null
  /\ selectedFileName = null

FinishReasonMessage(finishReason) ==
  CASE finishReason = "SAFETY" -> SafetyMessage
    [] finishReason = "RECITATION" -> RecitationMessage
    [] finishReason = "OTHER" -> OtherMessage

\* The call settled on a response whose first candidate carries finishReason.
settledWithFinishReason(finishReason) ==
  /\ svcResult # null
  /\ "genAIResponse" \in DOMAIN Val(svcResult)
  /\ ~Val(svcResult).genAIResponse.rejected
  /\ Len(Val(svcResult).genAIResponse.candidates) > 0
  /\ Val(svcResult).genAIResponse.candidates[1] = finishReason

\* C10 (as claimed): whenever the response carries a SAFETY, RECITATION or OTHER
\* finish reason, suggestDocumentNames fails, with the message of that reason.
C10_FinishReasonAlwaysFails ==
  \A finishReason \in { "SAFETY", "RECITATION", "OTHER" } :
    settledWithFinishReason(finishReason) =>
      /\ ~Val(svcResult).ok
      /\ Val(svcResult).message = FinishReasonMessage(finishReason)

\* C10 (amended): whenever the first candidate of the response carries a SAFETY,
\* RECITATION or OTHER finish reason and suggestDocumentNames fails, the message
\* is the fixed message of that reason, not the generic one.
C10_FinishReasonMessageOnFailure ==
  \A finishReason \in { "SAFETY", "RECITATION", "OTHER" } :
    (settledWithFinishReason(finishReason) /\ ~Val(svcResult).ok) =>
      Val(svcResult).message = FinishReasonMessage(finishReason)

\* C10 witness: a call failed on a response with a SAFETY finish reason and a
\* text that is not JSON.
C10_Witness ==
  /\ settledWithFinishReason("SAFETY")
  /\ Val(svcResult).genAIResponse.text = Some("Sorry, I cannot help")
  /\ ~Val(svcResult).ok
  /\ Val(svcResult).message = SafetyMessage

\* The responses of AppResponses whose text is the JSON array of a list of names.
arrayResponse(names) == Fulfilled(Some(ArrayText(names)), <<"STOP">>)

\* C11: when generateContent answers with the JSON array of a list of names,
\* suggestDocumentNames returns exactly that list (same elements, same order,
\* same length, duplicates kept, nothing cut at five, the empty list accepted)
\* and App stores that list in suggestedNames.
C11_ArrayReturnedAndStored ==
  [][\A names \in NameLists :
       (/\ request # null
        /\ arrayResponse(names) \in AppResponses
        /\ handleSubmitSettle(arrayResponse(names)))
       => /\ settleResponse(arrayResponse(names)) = Returned(names)
          /\ suggestedNames' = names]_vars

\* Six names, two of them equal, have been returned and stored.
C11_Witness ==
  /\ request = null
  /\ aiCalls > 0
  /\ error = null
  /\ suggestedNames = <<"YW_a", "YW_b", "YW_a", "YW_c", "YW_d", "YW_e">>

\* Response texts that are JSON but no array of strings, with the shape of the
\* value and, for a bare string, the string.
NonArrayTexts ==
  { [text |-> "\"just a string\"", shape |-> "string", str |-> "just a string"],
    [text |-> "\"API key not valid\"", shape |-> "string", str |-> "API key not valid"],
    [text |-> "{\"names\": [\"YW_a_20240101\"]}", shape |-> "object", str |-> ""],
    [text |-> "42", shape |-> "number", str |-> ""],
    [text |-> "null", shape |-> "null", str |-> ""],
    [text |-> "[\"YW_a_20240101\", 1]", shape |-> "array", str |-> ""],
    [text |-> "[[\"YW_a_20240101\"]]", shape |-> "array", str |-> ""] }

\* The call settled on a response with the text of entry t of NonArrayTexts.
settledOnNonArray(t) ==
  /\ svcResult # null
  /\ "genAIResponse" \in DOMAIN Val(svcResult)
  /\ ~Val(svcResult).genAIResponse.rejected
  /\ Val(svcResult).genAIResponse.text = Some(t.text)

quoted(str) == "\"" \o str \o "\""

FailedPrefix == "Failed to get suggestions from AI: "

\* C12 (as claimed): on a response text that is JSON but no array of strings the
\* call fails; the message quotes a bare string, and is the generic
\* unexpected-format message for any other shape.
C12_NonArrayMessageByShape ==
  \A t \in NonArrayTexts :
    settledOnNonArray(t) =>
      /\ ~Val(svcResult).ok
      /\ IF t.shape = "string"
         THEN includes(Val(svcResult).message, quoted(t.str))
         ELSE includes(Val(svcResult).message, UnexpectedFormatMessage)

\* The first candidate of the settled response carries SAFETY, RECITATION or OTHER.
blockingFinishReason ==
  \E finishReason \in { "SAFETY", "RECITATION", "OTHER" } : settledWithFinishReason(finishReason)

\* C12 (amended): on a response text that is JSON but no array of strings the
\* call always fails.  If the first candidate carries SAFETY, RECITATION or OTHER
\* the message is that reason's message; otherwise, if the bare string contains
\* "API key not valid", it is the invalid-key message; otherwise it is "Failed to
\* get suggestions from AI: " followed by the message quoting the bare string,
\* or by the generic unexpected-format message for any other shape, and ".".
C12_NonArrayFailsWithRewrittenMessage ==
  \A t \in NonArrayTexts :
    settledOnNonArray(t) =>
      /\ ~Val(svcResult).ok
      /\ IF blockingFinishReason
         THEN Val(svcResult).message = FinishReasonMessage(Val(svcResult).genAIResponse.candidates[1])
         ELSE IF t.shape = "string" /\ includes(t.str, "API key not valid")
         THEN Val(svcResult).message = InvalidKeyMessage
         ELSE IF t.shape = "string"
         THEN /\ startsWith(Val(svcResult).message, FailedPrefix)
              /\ includes(Val(svcResult).message, quoted(t.str))
              /\ ~includes(Val(svcResult).message, UnexpectedFormatMessage)
         ELSE Val(svcResult).message = FailedPrefix \o UnexpectedFormatMessage \o "."

\* C12 witness: a call failed on the bare string "just a string" without a
\* blocking finish reason, and its message quotes the string.
C12_Witness ==
  /\ settledOnNonArray([text |-> "\"just a string\"", shape |-> "string", str |-> "just a string"])
  /\ ~blockingFinishReason
  /\ ~Val(svcResult).ok
  /\ includes(Val(svcResult).message, "\"just a string\"")

\* The call settled on a response with this text.
settledOnText(text) ==
  /\ svcResult # null
  /\ "genAIResponse" \in DOMAIN Val(svcResult)
  /\ ~Val(svcResult).genAIResponse.rejected
  /\ Val(svcResult).genAIResponse.text = Some(text)

surroundedByFence(jsonStr) == startsWith(jsonStr, Fence) /\ endsWith(jsonStr, Fence)

\* C13: fence stripping leaves a response text with no surrounding fence
\* unchanged; for the JSON array of a list of names wrapped in one fence, with or
\* without a language tag, the value parsed after stripping is the value parsed
\* from the unwrapped text, and the call returns the names; of two fences only the
\* outer one is removed, so what is left is still fenced and the call fails.
C13_FenceStripping ==
  /\ \A text \in { Val(t) : t \in ResponseTexts \ { null } } :
       (settledOnText(text) /\ ~surroundedByFence(trim(text))) => stripFence(trim(text)) = trim(text)
  /\ \A names \in NameLists, tag \in FenceTags, sep \in FenceSeparators :
       settledOnText(wrap(ArrayText(names), tag, sep)) =>
         /\ JSONparse(stripFence(wrap(ArrayText(names), tag, sep))) = JSONparse(ArrayText(names))
         /\ Val(svcResult).ok
         /\ Val(svcResult).names = names
  /\ \A names \in NameLists, tag \in FenceTags :
       LET inner == wrap(ArrayText(names), tag, "\n") IN
         settledOnText(wrap(inner, tag, "\n")) =>
           /\ stripFence(wrap(inner, tag, "\n")) = inner
           /\ ~Val(svcResult).ok

\* C13 witness: two names in a fence tagged json have been returned.
C13_Witness ==
  /\ settledOnText(wrap(ArrayText(<<"YW_a_20240101", "YW_b_20240101">>), "json", "\n"))
  /\ Val(svcResult).ok
  /\ Val(svcResult).names = <<"YW_a_20240101", "YW_b_20240101">>

\* C14 (as claimed): while App holds a file, suggestions are stored only by the
\* request that was issued for that file, and a change of the file held leaves
\* no suggestions: a non-empty suggestedNames belongs to the current file.
C14_SuggestionsOfCurrentFile ==
  [][/\ (suggestedNames' # << >> /\ suggestedNames' # suggestedNames /\ uploadedFile' # null) =>
          (request # null /\ Val(request).file = uploadedFile')
     /\ (uploadedFile' # uploadedFile) => suggestedNames' = << >>]_vars

\* C15: after every step at most one call of generateContent is outstanding,
\* and while one is, isLoading is true and the submit button is disabled; a step
\* that starts loading is an accepted submission and issues exactly one call; a
\* call is only ever issued by such a step; and when the call settles, with names
\* or with an error, isLoading becomes false and no further call is issued.
C15_OneOutstandingCall ==
  [][/\ Len(request') <= 1
     /\ (request' # << >>) => (isLoading' /\ submitDisabled')
     /\ (~isLoading /\ isLoading') => (aiCalls' = aiCalls + 1 /\ Len(request') = Len(request) + 1)
     /\ (aiCalls' # aiCalls \/ Len(request') > Len(request)) =>
          (~isLoading /\ isLoading' /\ aiCalls' = aiCalls + 1 /\ Len(request') = Len(request) + 1)
     /\ (Len(request') < Len(request)) =>
          (~isLoading' /\ aiCalls' = aiCalls /\ request' = << >>)]_vars

\* C15 witness: the one call issued has failed, loading has ended and no other
\* call has been issued.
C15_Witness ==
  /\ aiCalls = 1
  /\ request = << >>
  /\ ~isLoading
  /\ error = Some("Failed to get suggestions from AI: Failed to fetch.")

====
